---- MODULE Spec2Model ----
(***************************************************************************)
(* Model of crates/db_views/src/post_report_view.rs: the post-report view  *)
(* query (all_joins), the point lookup (read), the listing (list), the     *)
(* unresolved counter (get_report_count) and the store operations its test *)
(* drives (PostReport::report, CommunityModerator::join,                   *)
(* PostReport::resolve_all_for_object).                                    *)
(*                                                                         *)
(* A diesel query is modelled by the SQL it builds: every .filter() lands  *)
(* in the WHERE clause, .order_by() in ORDER BY and .limit()/.offset() in  *)
(* LIMIT/OFFSET, whatever the order of the builder calls.  Tables are sets *)
(* (or sequences) of rows, joins are set comprehensions, an SQL NULL or a  *)
(* Rust Option is a sequence of length at most one.                        *)
(***************************************************************************)
EXTENDS Integers, Sequences, FiniteSets, TLC

\* ------------------------------------------------------------------ options
None == << >>
Some(x) == << x >>

Ok(v) == [tag |-> "Ok", val |-> v]
Err(e) == [tag |-> "Err", val |-> e]

\* ------------------------------------------------------------------- bounds
\* The most reports the store holds while listings are taken.
MaxReports == 2

\* The most reports the store holds while reports are resolved and read back.
MaxReportsResolve == 3

\* The most reports the store holds while the viewer's edges vary.
MaxReportsView == 1

\* The most comments a post collects.
MaxComments == 2

\* --------------------------------------------------------------- seed data
\* The persons the test creates (Person::create).
person == {[id |-> "timmy"], [id |-> "sara"], [id |-> "jessica"]}

PersonIds == {p.id : p \in person}

\* The communities (Community::create): c1 is the test's, c2 a second one.
community == {[id |-> "c1"], [id |-> "c2"]}

CommunityIds == {c.id : c \in community}

\* The posts (Post::create): p1 and p2 are the test's, by timmy in c1; p3 is
\* a post by sara in c2.
post ==
  {[id |-> "p1", name |-> "A test post crv", creator_id |-> "timmy", community_id |-> "c1"],
   [id |-> "p2", name |-> "A test post crv 2", creator_id |-> "timmy", community_id |-> "c1"],
   [id |-> "p3", name |-> "A test post crv 3", creator_id |-> "sara", community_id |-> "c2"]}

PostIds == {p.id : p \in post}

\* The viewers: a LocalUserView carries the person and local_user.admin.
LocalUserViews ==
  {[person |-> [id |-> "timmy"], local_user |-> [admin |-> FALSE]],
   [person |-> [id |-> "sara"], local_user |-> [admin |-> TRUE]]}

\* -------------------------------------------------------------------- state
VARIABLES
  post_report,        \* the post_report table: a sequence, the row's id its index
  community_actions,  \* the community_actions table: a set of rows
  local_user,         \* the local_user table: a set of rows
  post_actions,       \* the post_actions table: a set of rows
  person_actions,     \* the person_actions table: a set of rows
  post_aggregates,    \* the post_aggregates table: a set of rows
  ret                 \* the last call: its name, its arguments and what it returned

vars ==
  << post_report, community_actions, local_user, post_actions, person_actions,
     post_aggregates, ret >>

\* No call is answered and waiting to be taken.
NoCall == [op |-> "none"]

\* A timestamp column that is set; which instant is of no matter to the view.
Ts == Some("ts")

\* ------------------------------------------------------------ query algebra
\* query.inner_join(table.on(cond)): a joined row per pair of a row of query
\* and a row of the table that satisfies cond; on is the set of those pairs.
inner_join(query, name, on) ==
  {(name :> jt[2]) @@ jt[1] : jt \in {x \in on : x[1] \in query}}

\* query.left_join(table.on(cond)): as inner_join, and a row with the table's
\* columns NULL for a row of query that no row of the table matches.
left_join(query, name, on) ==
  {(name :> Some(jt[2])) @@ jt[1] : jt \in {x \in on : x[1] \in query}}
    \cup {(name :> None) @@ j : j \in {q \in query : \A x \in on : x[1] # q}}

\* utils::actions(table, Some(person_id), target): the join condition
\* table.person_id = person_id AND table.<target column> = target.
actions(row_person_id, row_target, person_id, target_id) ==
  /\ Some(row_person_id) = person_id
  /\ row_target = target_id

\* is_not_null asking only whether a row was joined.
is_not_null_any_row(row, column) == row # None

\* column.nullable().is_not_null() on a left-joined column.
is_not_null(row, column) == row # None /\ row[1][column] # None

\* column.nullable().is_not_null() on a NOT NULL column of a left-joined
\* table: true exactly when a row was joined.
is_joined(row) == row # None

\* column.nullable() on a left-joined column.
nullable(row, column) == IF row = None THEN None ELSE row[1][column]

\* CommunityFollower::select_subscribed_type(): the viewer's follow state.
select_subscribed_type(row) ==
  IF nullable(row, "follow_state") = None THEN "NotSubscribed"
  ELSE nullable(row, "follow_state")[1]

\* coalesce giving its fallback whatever a is.
coalesce_fallback(a, b) == b

\* coalesce(a, b): a unless it is NULL.
coalesce(a, b) == IF a # None THEN a[1] ELSE b

\* a.nullable() - b.nullable(): NULL when either side is NULL.
nullable_sub(a, b) == IF a = None \/ b = None THEN None ELSE Some(a[1] - b[1])

\* resolver_join matching the report's creator in place of its resolver.
resolver_join_on_creator(query) ==
  left_join(query, "person2",
    {x \in query \X person : Some(x[1].post_report.creator_id) = Some(x[2].id)})

\* The left join of aliases::person2 on post_report.resolver_id.
resolver_join(query) ==
  left_join(query, "person2",
    {x \in query \X person : x[1].post_report.resolver_id = Some(x[2].id)})

\* The join graph of all_joins, before its select.
all_joins_from(query, my_person_id) ==
  LET j0 == {("post_report" :> r) : r \in query}
      j1 == inner_join(j0, "post",
              {x \in j0 \X post : x[1].post_report.post_id = x[2].id})
      j2 == inner_join(j1, "community",
              {x \in j1 \X community : x[1].post.community_id = x[2].id})
      j3 == inner_join(j2, "person",
              {x \in j2 \X person : x[1].post_report.creator_id = x[2].id})
      j4 == inner_join(j3, "person1",
              {x \in j3 \X person : x[1].post.creator_id = x[2].id})
      j5 == left_join(j4, "creator_community_actions",
              {x \in j4 \X community_actions :
                 actions(x[2].person_id, x[2].community_id,
                         Some(x[1].post.creator_id), x[1].post.community_id)})
      j6 == left_join(j5, "community_actions",
              {x \in j5 \X community_actions :
                 actions(x[2].person_id, x[2].community_id,
                         Some(my_person_id), x[1].post.community_id)})
      j7 == left_join(j6, "local_user",
              {x \in j6 \X local_user :
                 x[1].post.creator_id = x[2].person_id /\ x[2].admin = TRUE})
      j8 == left_join(j7, "post_actions",
              {x \in j7 \X post_actions :
                 actions(x[2].person_id, x[2].post_id,
                         Some(my_person_id), x[1].post.id)})
      j9 == left_join(j8, "person_actions",
              {x \in j8 \X person_actions :
                 actions(x[2].person_id, x[2].target_id,
                         Some(my_person_id), x[1].post.creator_id)})
      j10 == inner_join(j9, "post_aggregates",
              {x \in j9 \X post_aggregates :
                 x[1].post_report.post_id = x[2].post_id})
      j11 == resolver_join(j10)
  IN  j11

\* The select of all_joins: the PostReportView of a joined row.
select(j) ==
  [post_report |-> j.post_report,
   post |-> j.post,
   community |-> j.community,
   creator |-> j.person,
   post_creator |-> j.person1,
   creator_banned_from_community |->
     is_not_null(j.creator_community_actions, "received_ban"),
   creator_is_moderator |->
     is_not_null(j.creator_community_actions, "became_moderator"),
   creator_is_admin |-> is_joined(j.local_user),
   subscribed |-> select_subscribed_type(j.community_actions),
   saved |-> is_not_null(j.post_actions, "saved"),
   read |-> is_not_null(j.post_actions, "read"),
   hidden |-> is_not_null(j.post_actions, "hidden"),
   creator_blocked |-> is_not_null(j.person_actions, "blocked"),
   my_vote |-> nullable(j.post_actions, "like_score"),
   unread_comments |->
     coalesce(nullable_sub(Some(j.post_aggregates.comments),
                           nullable(j.post_actions, "read_comments_amount")),
              j.post_aggregates.comments),
   counts |-> j.post_aggregates,
   resolver |-> j.person2]

\* The post_report table as the set of its rows.
post_report_table == {post_report[i] : i \in 1..Len(post_report)}

\* ------------------------------------------------------------- pagination
\* utils::limit_and_offset's default and maximum page size.  The helper is not
\* in this file; the model takes a small default so that a store of MaxReports
\* rows can hold more rows than a page.
FETCH_LIMIT_DEFAULT == 1

FETCH_LIMIT_MAX == 2

\* utils::limit_and_offset(page, limit): a missing or invalid (zero) page is
\* page 1, a missing limit is the default, a limit out of range is an error.
limit_and_offset(page, limit) ==
  LET pg == IF page = None \/ page[1] < 1 THEN 1 ELSE page[1]
      lim == IF limit = None THEN FETCH_LIMIT_DEFAULT ELSE limit[1]
  IN  IF lim < 1 \/ lim > FETCH_LIMIT_MAX
      THEN Err("InvalidPagination")
      ELSE Ok([limit |-> lim, offset |-> lim * (pg - 1)])

\* ORDER BY post_report.published ASC|DESC over a set of joined rows: every
\* sequence of all the rows that respects the order.  Rows with equal
\* published come in an order the database chooses.
order_by_published(rows, asc) ==
  LET n == Cardinality(rows)
  IN  {s \in [1..n -> rows] :
         /\ \A i, k \in 1..n : i # k => s[i] # s[k]
         /\ \A i, k \in 1..n : i < k =>
              IF asc THEN s[i].post_report.published <= s[k].post_report.published
              ELSE s[i].post_report.published >= s[k].post_report.published}

\* LIMIT limit OFFSET offset over an ordered result.
limit_offset(s, limit, offset) ==
  SubSeq(s, offset + 1, IF offset + limit < Len(s) THEN offset + limit ELSE Len(s))

\* load::<PostReportView>: the selected columns of each row.
load(s) == [i \in 1..Len(s) |-> select(s[i])]

\* ----------------------------------------------------------------- queries
\* read giving a report only to a moderator of its community.
read_moderated(report_id, my_person_id) ==
  LET found == {r \in post_report_table : r.id = report_id}
      rows == {j \in all_joins_from(found, my_person_id) :
                 is_not_null(j.community_actions, "became_moderator")}
  IN  IF rows = {} THEN {Err("NotFound")}
      ELSE {Ok(select(j)) : j \in rows}

\* queries().read: the results .first() may give.
read(report_id, my_person_id) ==
  LET found == {r \in post_report_table : r.id = report_id}
      rows == all_joins_from(found, my_person_id)
  IN  IF rows = {} THEN {Err("NotFound")}
      ELSE {Ok(select(j)) : j \in rows}

\* The WHERE clause list builds from its community and post filters.
list_filters(query, options) ==
  LET q1 == IF options.community_id # None
            THEN {j \in query : j.post.community_id = options.community_id[1]}
            ELSE query
      q2 == IF options.post_id # None
            THEN {j \in q1 : j.post.id = options.post_id[1]}
            ELSE q1
  IN  q2

\* The resolution filter of list: unresolved reports only when asked.
list_resolved_filter(query, options) ==
  IF options.unresolved_only
  THEN {j \in query : j.post_report.resolved = FALSE}
  ELSE query

\* list_mod_filter asking only for an edge to the community, moderator or not.
list_mod_filter_any_edge(query, user) ==
  IF ~user.local_user.admin
  THEN {j \in query : is_joined(j.community_actions)}
  ELSE query

\* If its not an admin, get only the ones you mod.
list_mod_filter(query, user) ==
  IF ~user.local_user.admin
  THEN {j \in query : is_not_null(j.community_actions, "became_moderator")}
  ELSE query

\* The rows that pass every filter of list: its WHERE clause.
list_where(options, user) ==
  list_mod_filter(
    list_resolved_filter(
      list_filters(all_joins_from(post_report_table, user.person.id), options),
      options),
    user)

\* list_order_by with the two orders exchanged.
list_order_by_swapped(rows, options) ==
  order_by_published(rows, ~options.unresolved_only)

\* The ORDER BY of list: oldest first when unresolved_only, else newest first.
list_order_by(rows, options) == order_by_published(rows, options.unresolved_only)

\* list_page with the moderator filter applied to the page, after LIMIT and
\* OFFSET, as the order of the builder calls reads.
list_page_filter_after(options, user, lo) ==
  LET unscoped == list_resolved_filter(
                    list_filters(all_joins_from(post_report_table, user.person.id),
                                 options),
                    options)
      scoped(s) == SelectSeq(s, LAMBDA j : list_mod_filter({j}, user) # {})
  IN  {load(scoped(limit_offset(s, lo.limit, lo.offset))) :
         s \in list_order_by(unscoped, options)}

\* The rows list loads: the page of the ordered rows that pass the filters.
list_page(options, user, lo) ==
  {load(limit_offset(s, lo.limit, lo.offset)) :
     s \in list_order_by(list_where(options, user), options)}

\* queries().list: the results the query may give.
list(options, user) ==
  LET lo == limit_and_offset(options.page, options.limit)
  IN  IF lo.tag = "Err" THEN {lo}
      ELSE {Ok(rows) : rows \in list_page(options, user, lo.val)}

\* count_mod_join joining any edge of the viewer to the community.
count_mod_join_any_edge(query, my_person_id) ==
  inner_join(query, "community_actions",
    {x \in query \X community_actions :
       /\ x[2].community_id = x[1].post.community_id
       /\ x[2].person_id = my_person_id})

\* The join of get_report_count for a non-admin: the viewer's moderator edge.
count_mod_join(query, my_person_id) ==
  inner_join(query, "community_actions",
    {x \in query \X community_actions :
       /\ x[2].community_id = x[1].post.community_id
       /\ x[2].person_id = my_person_id
       /\ x[2].became_moderator # None})

\* count_rows without the resolved = false filter.
count_rows_all(my_person_id, admin, community_id) ==
  LET q0 == inner_join({("post_report" :> r) : r \in post_report_table}, "post",
              {x \in {("post_report" :> r) : r \in post_report_table} \X post :
                 x[1].post_report.post_id = x[2].id})
      q2 == IF community_id # None
            THEN {j \in q0 : j.post.community_id = community_id[1]}
            ELSE q0
  IN  IF ~admin THEN count_mod_join(q2, my_person_id) ELSE q2

\* The rows get_report_count counts.
count_rows(my_person_id, admin, community_id) ==
  LET q0 == inner_join({("post_report" :> r) : r \in post_report_table}, "post",
              {x \in {("post_report" :> r) : r \in post_report_table} \X post :
                 x[1].post_report.post_id = x[2].id})
      q1 == {j \in q0 : j.post_report.resolved = FALSE}
      q2 == IF community_id # None
            THEN {j \in q1 : j.post.community_id = community_id[1]}
            ELSE q1
  IN  IF ~admin THEN count_mod_join(q2, my_person_id) ELSE q2

\* PostReportView::get_report_count.
get_report_count(my_person_id, admin, community_id) ==
  Ok(Cardinality(count_rows(my_person_id, admin, community_id)))

\* ------------------------------------------------------- store operations
\* The newest creation time among the stored reports (0 when there is none).
last_published ==
  IF post_report = << >> THEN 0 ELSE post_report[Len(post_report)].published

\* PostReport::report(form): inserts an unresolved report.  published is the
\* insert's time: not before the reports already stored, possibly equal to the
\* last one's.
report(creator_id, post_id, published) ==
  Append(post_report,
    [id |-> Len(post_report) + 1,
     creator_id |-> creator_id,
     post_id |-> post_id,
     original_post_name |-> (CHOOSE p \in post : p.id = post_id).name,
     reason |-> "from " \o creator_id,
     resolved |-> FALSE,
     resolver_id |-> None,
     published |-> published])

\* resolve_all_for_object without its resolved = false condition.
resolve_all_for_object_again(post_id, by_resolver_id) ==
  [i \in 1..Len(post_report) |->
     IF post_report[i].post_id = post_id
     THEN [post_report[i] EXCEPT !.resolved = TRUE,
                                 !.resolver_id = Some(by_resolver_id)]
     ELSE post_report[i]]

\* PostReport::resolve_all_for_object(post_id, resolver_id): one UPDATE of the
\* unresolved reports of the post; the table after it.
resolve_all_for_object(post_id, by_resolver_id) ==
  [i \in 1..Len(post_report) |->
     IF post_report[i].post_id = post_id /\ post_report[i].resolved = FALSE
     THEN [post_report[i] EXCEPT !.resolved = TRUE,
                                 !.resolver_id = Some(by_resolver_id)]
     ELSE post_report[i]]

\* The number of rows that UPDATE affects.
resolve_all_affected(post_id) ==
  Cardinality({i \in 1..Len(post_report) :
                 post_report[i].post_id = post_id /\ post_report[i].resolved = FALSE})

\* CommunityModerator::join(form): the person's community_actions row gets
\* became_moderator set (inserted when the person has no row yet).
join(person_id, community_id) ==
  LET old == {a \in community_actions :
                a.person_id = person_id /\ a.community_id = community_id}
      row == IF old = {}
             THEN [person_id |-> person_id, community_id |-> community_id,
                   became_moderator |-> Ts, received_ban |-> None,
                   follow_state |-> None]
             ELSE [(CHOOSE a \in old : TRUE) EXCEPT !.became_moderator = Ts]
  IN  (community_actions \ old) \cup {row}

\* An insert-or-update of one column of the person's row on a post.
post_action(person_id, post_id, column, value) ==
  LET old == {a \in post_actions : a.person_id = person_id /\ a.post_id = post_id}
      row == IF old = {}
             THEN [person_id |-> person_id, post_id |-> post_id, saved |-> None,
                   read |-> None, hidden |-> None, like_score |-> None,
                   read_comments_amount |-> None]
             ELSE CHOOSE a \in old : TRUE
  IN  (post_actions \ old) \cup {[row EXCEPT ![column] = value]}

\* CommunityPersonBan::ban(form): the person's community_actions row gets
\* received_ban set (inserted when the person has no row yet).
ban(person_id, community_id) ==
  LET old == {a \in community_actions :
                a.person_id = person_id /\ a.community_id = community_id}
      row == IF old = {}
             THEN [person_id |-> person_id, community_id |-> community_id,
                   became_moderator |-> None, received_ban |-> Ts,
                   follow_state |-> None]
             ELSE [(CHOOSE a \in old : TRUE) EXCEPT !.received_ban = Ts]
  IN  (community_actions \ old) \cup {row}

\* The comments column of the post's aggregates row.
comments_of(post_id) ==
  (CHOOSE a \in post_aggregates : a.post_id = post_id).comments

\* ------------------------------------------------------ the arguments drawn
CommunityFilters == {None} \cup {Some(c) : c \in CommunityIds}

PostFilters == {None, Some("p1"), Some("p3")}

Pages == {None, Some(0), Some(2)}

Limits == {None, Some(0), Some(FETCH_LIMIT_MAX)}

PostReportQuery ==
  [community_id : CommunityFilters, post_id : PostFilters, page : Pages,
   limit : Limits, unresolved_only : BOOLEAN]

\* ------------------------------------------------------------------ actions
\* The store after the test's set-up: persons, communities and posts exist,
\* each post has its aggregates row, timmy and sara have local accounts (sara
\* is a site admin), timmy follows c2 without moderating it, nothing is
\* reported yet.
Init ==
  /\ post_report = << >>
  /\ community_actions =
       {[person_id |-> "timmy", community_id |-> "c2", became_moderator |-> None,
         received_ban |-> None, follow_state |-> Some("Accepted")]}
  /\ local_user = {[person_id |-> "timmy", admin |-> FALSE],
                   [person_id |-> "sara", admin |-> TRUE]}
  /\ post_actions = {}
  /\ person_actions = {}
  /\ post_aggregates = {[post_id |-> p, comments |-> 0] : p \in PostIds}
  /\ ret = NoCall

\* The persons who have reported the post.
reporters_of(post_id) ==
  {post_report[i].creator_id :
     i \in {k \in 1..Len(post_report) : post_report[k].post_id = post_id}}

\* Who files the next report of a post: the first person, in a fixed order,
\* who has not reported it yet (a person reports a post once).
next_reporter(post_id) ==
  LET order == << "sara", "jessica", "timmy" >>
      free == {k \in 1..Len(order) : order[k] \notin reporters_of(post_id)}
  IN  IF free = {} THEN None
      ELSE Some(order[CHOOSE k \in free : \A m \in free : k <= m])

\* PostReport::report by the next reporter of a post, while fewer than max
\* reports are stored.
ReportUpTo(max) ==
  /\ ret = NoCall
  /\ \E post_id \in PostIds :
    \E published \in {last_published, last_published + 1} :
      /\ Len(post_report) < max
      /\ published >= 1
      /\ next_reporter(post_id) # None
      /\ post_report' = report(next_reporter(post_id)[1], post_id, published)
      /\ ret' = NoCall
      /\ UNCHANGED << community_actions, local_user, post_actions, person_actions,
                      post_aggregates >>

Report == ReportUpTo(MaxReports)

\* CommunityModerator::join: timmy becomes a moderator of a community.
Join ==
  /\ ret = NoCall
  /\ \E person_id \in {"timmy"}, community_id \in CommunityIds :
    /\ community_actions' = join(person_id, community_id)
    /\ community_actions' # community_actions
    /\ ret' = NoCall
    /\ UNCHANGED << post_report, local_user, post_actions, person_actions,
                    post_aggregates >>

\* The UPDATE is one statement: a second call may run it before the first
\* call's response is taken.
ResolveAllBy(resolvers) ==
  /\ ret = NoCall \/ ret.op = "resolve_all_for_object"
  /\ \E post_id \in PostIds, resolver_id \in resolvers :
    /\ post_report' = resolve_all_for_object(post_id, resolver_id)
    /\ ret' = [op |-> "resolve_all_for_object",
               args |-> [post_id |-> post_id, resolver_id |-> resolver_id],
               res |-> Ok(resolve_all_affected(post_id))]
    /\ UNCHANGED << community_actions, local_user, post_actions, person_actions,
                    post_aggregates >>

\* The post is removed by its moderator timmy, who resolves its reports.
ResolveAllForObject == ResolveAllBy({"timmy"})

\* PostReportView::read of a stored report, or of the first unused id.
Read ==
  /\ ret = NoCall
  /\ \E report_id \in 1..(Len(post_report) + 1), my_person_id \in PersonIds :
    \E res \in read(report_id, my_person_id) :
      /\ ret' = [op |-> "read",
                 args |-> [report_id |-> report_id, my_person_id |-> my_person_id],
                 res |-> res]
      /\ UNCHANGED << post_report, community_actions, local_user, post_actions,
                      person_actions, post_aggregates >>

\* PostReportQuery::list with any options, by either viewer.
List ==
  /\ ret = NoCall
  /\ \E options \in PostReportQuery, user \in LocalUserViews :
    \E res \in list(options, user) :
      /\ ret' = [op |-> "list", args |-> [options |-> options, user |-> user],
                 res |-> res]
      /\ UNCHANGED << post_report, community_actions, local_user, post_actions,
                      person_actions, post_aggregates >>

\* PostReportView::get_report_count for either viewer.
GetReportCount ==
  /\ ret = NoCall
  /\ \E user \in LocalUserViews, community_id \in CommunityFilters :
    /\ ret' = [op |-> "get_report_count",
               args |-> [my_person_id |-> user.person.id,
                         admin |-> user.local_user.admin,
                         community_id |-> community_id],
               res |-> get_report_count(user.person.id, user.local_user.admin,
                                        community_id)]
    /\ UNCHANGED << post_report, community_actions, local_user, post_actions,
                    person_actions, post_aggregates >>

\* The caller takes the response; the next call may start.
Return ==
  /\ ret # NoCall
  /\ ret' = NoCall
  /\ UNCHANGED << post_report, community_actions, local_user, post_actions,
                  person_actions, post_aggregates >>

Next ==
  \/ Report
  \/ Join
  \/ ResolveAllForObject
  \/ Read
  \/ List
  \/ GetReportCount
  \/ Return

Spec == Init /\ [][Next]_vars

\* The resolution workflow: reports are filed, resolved by either of two
\* persons, and read back.
ReportToResolve == ReportUpTo(MaxReportsResolve)

ResolveAllForObjectByAny == ResolveAllBy({"timmy", "sara"})

NextResolve ==
  \/ ReportToResolve
  \/ ResolveAllForObjectByAny
  \/ Read
  \/ Return

SpecResolve == Init /\ [][NextResolve]_vars

\* The view's viewer-relative fields: jessica acts on post p1 and on its
\* author timmy, timmy is made moderator of or banned from a community, p1
\* collects comments, and any person reads the reports.
ReportToView == ReportUpTo(MaxReportsView)

EdgePersons == {"jessica"}

EdgePosts == {"p1"}

StoreUnchangedBut(changed) ==
  /\ ret = NoCall
  /\ ret' = NoCall
  /\ changed # "community_actions" => UNCHANGED community_actions
  /\ changed # "post_actions" => UNCHANGED post_actions
  /\ changed # "person_actions" => UNCHANGED person_actions
  /\ changed # "post_aggregates" => UNCHANGED post_aggregates
  /\ UNCHANGED << post_report, local_user >>

\* PostLike::like(form): the viewer's vote on the post.
LikePost ==
  \E person_id \in EdgePersons, post_id \in EdgePosts, score \in {1, -1} :
    /\ post_actions' = post_action(person_id, post_id, "like_score", Some(score))
    /\ post_actions' # post_actions
    /\ StoreUnchangedBut("post_actions")

\* PostSaved::save(form).
SavePost ==
  \E person_id \in EdgePersons, post_id \in EdgePosts :
    /\ post_actions' = post_action(person_id, post_id, "saved", Ts)
    /\ post_actions' # post_actions
    /\ StoreUnchangedBut("post_actions")

\* PostRead::mark_as_read(form).
MarkPostAsRead ==
  \E person_id \in EdgePersons, post_id \in EdgePosts :
    /\ post_actions' = post_action(person_id, post_id, "read", Ts)
    /\ post_actions' # post_actions
    /\ StoreUnchangedBut("post_actions")

\* PostHide::hide(form).
HidePost ==
  \E person_id \in EdgePersons, post_id \in EdgePosts :
    /\ post_actions' = post_action(person_id, post_id, "hidden", Ts)
    /\ post_actions' # post_actions
    /\ StoreUnchangedBut("post_actions")

\* The viewer opens the post: the comments it has now are recorded as read.
UpdateReadComments ==
  \E person_id \in EdgePersons, post_id \in EdgePosts :
    /\ post_actions' = post_action(person_id, post_id, "read_comments_amount",
                                   Some(comments_of(post_id)))
    /\ post_actions' # post_actions
    /\ StoreUnchangedBut("post_actions")

\* PersonBlock::block(form): the viewer blocks the post's author.
BlockPerson ==
  \E person_id \in EdgePersons, target_id \in {"timmy"} :
    /\ person_actions' = person_actions \cup
         {[person_id |-> person_id, target_id |-> target_id, blocked |-> Ts]}
    /\ person_actions' # person_actions
    /\ StoreUnchangedBut("person_actions")

\* CommunityPersonBan::ban(form): the post's author is banned from c1.
BanFromCommunity ==
  \E person_id \in {"timmy"}, community_id \in {"c1"} :
    /\ community_actions' = ban(person_id, community_id)
    /\ community_actions' # community_actions
    /\ StoreUnchangedBut("community_actions")

\* A comment is added to the post: its aggregates row counts it.
AddComment ==
  \E post_id \in EdgePosts :
    /\ comments_of(post_id) < MaxComments
    /\ post_aggregates' =
         {IF a.post_id = post_id THEN [a EXCEPT !.comments = @ + 1] ELSE a :
            a \in post_aggregates}
    /\ StoreUnchangedBut("post_aggregates")

\* PostReportQuery::default().list(pool, &user), as the test calls it.
ListDefault ==
  /\ ret = NoCall
  /\ \E user \in LocalUserViews :
     LET options == [community_id |-> None, post_id |-> None, page |-> None,
                     limit |-> None, unresolved_only |-> FALSE]
     IN  \E res \in list(options, user) :
           /\ ret' = [op |-> "list", args |-> [options |-> options, user |-> user],
                      res |-> res]
           /\ UNCHANGED << post_report, community_actions, local_user, post_actions,
                           person_actions, post_aggregates >>

NextView ==
  \/ ReportToView
  \/ Join
  \/ BanFromCommunity
  \/ LikePost
  \/ SavePost
  \/ MarkPostAsRead
  \/ HidePost
  \/ UpdateReadComments
  \/ BlockPerson
  \/ AddComment
  \/ Read
  \/ ListDefault
  \/ Return

SpecView == Init /\ [][NextView]_vars

\* --------------------------------------------------------------- properties
\* What the claims read off the store, stated on the tables themselves.
Min(a, b) == IF a < b THEN a ELSE b

Max(a, b) == IF a > b THEN a ELSE b

ReportIds == 1..Len(post_report)

CommunityOf(post_id) == (CHOOSE p \in post : p.id = post_id).community_id

\* The person holds a moderator edge on the community.
Moderates(person_id, community_id) ==
  \E a \in community_actions :
    /\ a.person_id = person_id
    /\ a.community_id = community_id
    /\ a.became_moderator # None

\* The report is in the viewer's scope: any report for a site admin, the
\* reports of moderated communities for anyone else.
InScope(i, person_id, admin) ==
  admin \/ Moderates(person_id, CommunityOf(post_report[i].post_id))

\* The report passes the community, post and resolution filters of options.
PassesFilters(i, options) ==
  /\ options.community_id # None =>
       CommunityOf(post_report[i].post_id) = options.community_id[1]
  /\ options.post_id # None => post_report[i].post_id = options.post_id[1]
  /\ options.unresolved_only => ~post_report[i].resolved

\* The reports a listing ranges over before pagination.
Visible(options, user) ==
  {i \in ReportIds :
     PassesFilters(i, options) /\ InScope(i, user.person.id, user.local_user.admin)}

\* report a may come before report b in a listing with these options.
MayPrecede(a, b, options) ==
  IF options.unresolved_only
  THEN post_report[a].published <= post_report[b].published
  ELSE post_report[a].published >= post_report[b].published

\* The orders the database may give the reports of ids.
Ordered(ids, options) ==
  {s \in [1..Cardinality(ids) -> ids] :
     /\ \A i, k \in DOMAIN s : i # k => s[i] # s[k]
     /\ \A i, k \in DOMAIN s : i < k => MayPrecede(s[i], s[k], options)}

ListReturned == ret.op = "list" /\ ret.res.tag = "Ok"

RowIds == [k \in DOMAIN ret.res.val |-> ret.res.val[k].post_report.id]

\* C1: a listing by a viewer who is not a site admin holds no report of a
\* community the viewer does not moderate, whatever the options; a listing by
\* a site admin is the page of all the reports that pass the community, post
\* and resolution filters, moderated by the viewer or not.
C1_VisibilityScoping ==
  ListReturned =>
    LET options == ret.args.options
        user == ret.args.user
        rows == ret.res.val
        lo == limit_and_offset(options.page, options.limit).val
        passing == {i \in ReportIds : PassesFilters(i, options)}
    IN  IF ~user.local_user.admin
        THEN \A k \in DOMAIN rows :
               Moderates(user.person.id, rows[k].community.id)
        ELSE /\ {RowIds[k] : k \in DOMAIN rows} \subseteq passing
             /\ Len(rows) = Min(lo.limit, Max(0, Cardinality(passing) - lo.offset))

\* A non-admin's unfiltered listing returned a report while an unresolved
\* report sits in a community the viewer does not moderate.
C1_Witness ==
  /\ ListReturned
  /\ ~ret.args.user.local_user.admin
  /\ ret.args.options.community_id = None
  /\ ret.args.options.post_id = None
  /\ Len(ret.res.val) >= 1
  /\ \E i \in ReportIds :
       /\ ~post_report[i].resolved
       /\ ~Moderates(ret.args.user.person.id, CommunityOf(post_report[i].post_id))

\* C2 as stated: get_report_count equals the number of rows of
\* list(unresolved_only = true) for the same viewer and community filter (no
\* post filter, default page and limit).
C2_CountEqualsListLength ==
  (/\ ListReturned
   /\ ret.args.options.unresolved_only
   /\ ret.args.options.post_id = None
   /\ ret.args.options.page = None
   /\ ret.args.options.limit = None) =>
    Len(ret.res.val) =
      get_report_count(ret.args.user.person.id, ret.args.user.local_user.admin,
                       ret.args.options.community_id).val

\* C2, amended: list(unresolved_only = true) with no post filter returns the
\* page of the reports get_report_count counts for the same viewer and
\* community filter: min(limit, max(0, count - offset)) rows; the two numbers
\* agree when the count fits a page and the page is the first.
C2_ListLengthIsPageOfCount ==
  (/\ ListReturned
   /\ ret.args.options.unresolved_only
   /\ ret.args.options.post_id = None) =>
    LET lo == limit_and_offset(ret.args.options.page, ret.args.options.limit).val
        count == get_report_count(ret.args.user.person.id,
                                  ret.args.user.local_user.admin,
                                  ret.args.options.community_id).val
    IN  /\ Len(ret.res.val) = Min(lo.limit, Max(0, count - lo.offset))
        /\ (count <= lo.limit /\ lo.offset = 0) => Len(ret.res.val) = count

\* A default listing of unresolved reports returned one page while the count
\* for the same viewer and community filter is larger than the page.
C2_Witness ==
  /\ ListReturned
  /\ ret.args.options.unresolved_only
  /\ ret.args.options.post_id = None
  /\ ret.args.options.page = None
  /\ ret.args.options.limit = None
  /\ Len(ret.res.val) = FETCH_LIMIT_DEFAULT
  /\ get_report_count(ret.args.user.person.id, ret.args.user.local_user.admin,
                      ret.args.options.community_id).val > FETCH_LIMIT_DEFAULT

\* C3: list(unresolved_only = true) holds unresolved reports only, the older
\* of two rows with distinct creation times first; list(unresolved_only =
\* false) holds the newer first and is the page of every report in scope that
\* passes the community and post filters, resolved or not.
C3_OrderingFollowsResolutionFilter ==
  ListReturned =>
    LET options == ret.args.options
        rows == ret.res.val
        lo == limit_and_offset(options.page, options.limit).val
        any == {i \in ReportIds :
                  /\ PassesFilters(i, [options EXCEPT !.unresolved_only = FALSE])
                  /\ InScope(i, ret.args.user.person.id,
                             ret.args.user.local_user.admin)}
    IN  IF options.unresolved_only
        THEN /\ \A k \in DOMAIN rows : rows[k].post_report.resolved = FALSE
             /\ \A i, k \in DOMAIN rows :
                  (i < k /\ rows[i].post_report.published # rows[k].post_report.published)
                    => rows[i].post_report.published < rows[k].post_report.published
        ELSE /\ Len(rows) = Min(lo.limit, Max(0, Cardinality(any) - lo.offset))
             /\ \A i, k \in DOMAIN rows :
                  (i < k /\ rows[i].post_report.published # rows[k].post_report.published)
                    => rows[i].post_report.published > rows[k].post_report.published

\* A listing of all reports returned a resolved and an unresolved report
\* with distinct creation times.
C3_Witness ==
  /\ ListReturned
  /\ ~ret.args.options.unresolved_only
  /\ \E i, k \in DOMAIN ret.res.val :
       /\ ret.res.val[i].post_report.resolved
       /\ ~ret.res.val[k].post_report.resolved
       /\ ret.res.val[i].post_report.published # ret.res.val[k].post_report.published

\* C6: read applies no visibility filter: for a stored report it returns the
\* one view of that report, whoever the viewer is, and it fails with NotFound
\* exactly when no report has the identifier.
C6_ReadUnfilteredOrNotFound ==
  ret.op = "read" =>
    IF ret.args.report_id \in ReportIds
    THEN /\ ret.res.tag = "Ok"
         /\ ret.res.val.post_report = post_report[ret.args.report_id]
         /\ Cardinality(read(ret.args.report_id, ret.args.my_person_id)) = 1
    ELSE ret.res = Err("NotFound")

\* A viewer who is no site admin and moderates nothing read a report.
C6_Witness ==
  /\ ret.op = "read"
  /\ ret.res.tag = "Ok"
  /\ \A a \in local_user : a.person_id = ret.args.my_person_id => ~a.admin
  /\ \A c \in CommunityIds : ~Moderates(ret.args.my_person_id, c)

\* C8: get_report_count is the number of unresolved reports in the viewer's
\* scope (every community for a site admin, the moderated ones otherwise)
\* within the community filter; it is never an error, and 0 when none match.
C8_CountIsUnresolvedInScope ==
  ret.op = "get_report_count" =>
    /\ ret.res.tag = "Ok"
    /\ ret.res.val =
         Cardinality({i \in ReportIds :
           /\ ~post_report[i].resolved
           /\ InScope(i, ret.args.my_person_id, ret.args.admin)
           /\ ret.args.community_id # None =>
                CommunityOf(post_report[i].post_id) = ret.args.community_id[1]})

\* A non-admin's count left out a report: it counted one of two.
C8_Witness ==
  /\ ret.op = "get_report_count"
  /\ ~ret.args.admin
  /\ ret.res.val = 1
  /\ Len(post_report) = 2
  /\ \E i \in ReportIds : post_report[i].resolved

\* C10: list returns the slice [offset, offset + limit) of an ordering of the
\* reports that pass the community, post, resolution and visibility filters
\* (the filters apply before pagination), and when limit_and_offset rejects
\* page or limit it returns that error and no rows.
C10_FiltersBeforePagination ==
  ret.op = "list" =>
    LET options == ret.args.options
        lo == limit_and_offset(options.page, options.limit)
    IN  IF lo.tag = "Err" THEN ret.res = lo
        ELSE /\ ret.res.tag = "Ok"
             /\ \E s \in Ordered(Visible(options, ret.args.user), options) :
                  RowIds = SubSeq(s, lo.val.offset + 1,
                                  Min(Len(s), lo.val.offset + lo.val.limit))

\* A non-admin's page holds a report although a report the viewer may not
\* see comes before it in the order.
C10_Witness ==
  /\ ListReturned
  /\ ~ret.args.user.local_user.admin
  /\ Len(ret.res.val) = 1
  /\ ret.args.options.page = None
  /\ \E i \in ReportIds :
       /\ PassesFilters(i, ret.args.options)
       /\ ~InScope(i, ret.args.user.person.id, FALSE)
       /\ MayPrecede(i, RowIds[1], ret.args.options)
       /\ ~MayPrecede(RowIds[1], i, ret.args.options)

\* The columns of a report that no operation changes once it is stored.
SnapshotOf(r) ==
  [id |-> r.id, creator_id |-> r.creator_id, post_id |-> r.post_id,
   original_post_name |-> r.original_post_name, reason |-> r.reason,
   published |-> r.published]

\* A step of resolve_all_for_object (only it leaves its response in ret).
ResolveStep == ret'.op = "resolve_all_for_object"

\* C4: resolve_all_for_object(item, resolver) marks each of the N unresolved
\* reports of the item resolved by the resolver and reports N rows; the other
\* reports, and every report's snapshot fields, reason, creator and creation
\* time, stay as they were; and a read of a resolved report gives a view
\* whose resolver is the person who resolved it.
C4_ResolveAllStampsAndFrames ==
  /\ [][ResolveStep =>
          LET item == ret'.args.post_id
              resolver == ret'.args.resolver_id
              open == {i \in ReportIds :
                         post_report[i].post_id = item /\ ~post_report[i].resolved}
          IN  /\ Len(post_report') = Len(post_report)
              /\ ret'.res = Ok(Cardinality(open))
              /\ \A i \in open :
                   /\ post_report'[i].resolved
                   /\ post_report'[i].resolver_id = Some(resolver)
              /\ \A i \in ReportIds \ open : post_report'[i] = post_report[i]
              /\ \A i \in ReportIds :
                   SnapshotOf(post_report'[i]) = SnapshotOf(post_report[i])
              /\ UNCHANGED << community_actions, local_user, post_actions,
                              person_actions, post_aggregates >>]_vars
  /\ [](ret.op = "read" /\ ret.res.tag = "Ok" =>
          LET view == ret.res.val
          IN  /\ view.post_report = post_report[ret.args.report_id]
              /\ view.post_report.resolved =>
                   view.resolver = Some([id |-> view.post_report.resolver_id[1]])
              /\ ~view.post_report.resolved => view.resolver = None)

\* Two reports of one post were resolved by sara, a report of another post
\* is still open, and one of the two was read back with sara as resolver.
C4_Witness ==
  /\ ret.op = "read"
  /\ ret.res.tag = "Ok"
  /\ ret.res.val.post_report.resolved
  /\ ret.res.val.resolver = Some([id |-> "sara"])
  /\ \E i, k \in ReportIds :
       /\ i # ret.args.report_id
       /\ post_report[i].post_id = ret.res.val.post_report.post_id
       /\ post_report[i].resolver_id = Some("sara")
       /\ post_report[k].post_id # post_report[i].post_id
       /\ ~post_report[k].resolved

\* C5: a second resolve_all_for_object on the item, run right after the
\* first (before or after its response is taken) by the same or another
\* resolver, affects zero rows and succeeds; and no step changes a report
\* that is already resolved, so the first call's resolver stays.
C5_SecondResolveIsNoOp ==
  [][/\ (/\ ResolveStep
         /\ \A i \in ReportIds :
              post_report[i].post_id = ret'.args.post_id => post_report[i].resolved)
          => (ret'.res = Ok(0) /\ post_report' = post_report)
     /\ (/\ ResolveStep
         /\ ret.op = "resolve_all_for_object"
         /\ ret.args.post_id = ret'.args.post_id)
          => (ret'.res = Ok(0) /\ post_report' = post_report)
     /\ \A i \in ReportIds :
          post_report[i].resolved => post_report'[i] = post_report[i]]_vars

\* A second call by another resolver affected no row of an item whose
\* report keeps the first resolver.
C5_Witness ==
  /\ ret.op = "resolve_all_for_object"
  /\ ret.res = Ok(0)
  /\ \E i \in ReportIds :
       /\ post_report[i].post_id = ret.args.post_id
       /\ post_report[i].resolved
       /\ post_report[i].resolver_id # Some(ret.args.resolver_id)

\* The views the last call returned.
ViewsReturned ==
  IF ret.op = "read" /\ ret.res.tag = "Ok" THEN {ret.res.val}
  ELSE IF ListReturned THEN {ret.res.val[k] : k \in DOMAIN ret.res.val}
  ELSE {}

\* The viewer of the last read or list.
Viewer == IF ret.op = "read" THEN ret.args.my_person_id ELSE ret.args.user.person.id

\* The column of the person's post_actions row on the post; NULL without a row.
PostActionColumn(person_id, post_id, column) ==
  LET rows == {a \in post_actions : a.person_id = person_id /\ a.post_id = post_id}
  IN  IF rows = {} THEN None ELSE (CHOOSE a \in rows : TRUE)[column]

\* The column of the person's community_actions row; NULL without a row.
CommunityActionColumn(person_id, community_id, column) ==
  LET rows == {a \in community_actions :
                 a.person_id = person_id /\ a.community_id = community_id}
  IN  IF rows = {} THEN None ELSE (CHOOSE a \in rows : TRUE)[column]

\* C7: in the view of an unresolved report resolver is null, my_vote is the
\* viewer's vote and null when the viewer never voted, and each of the
\* booleans (author banned from community, author is moderator, author is
\* admin, saved, read, hidden, author blocked) is true exactly when its edge
\* exists, so false without it; a stored report is always read, and an
\* admin's default listing holds a page of the stored reports, whatever
\* edges are missing.
C7_MissingEdgesAreFalseOrNull ==
  /\ \A v \in ViewsReturned :
       LET r == v.post_report
           author == v.post.creator_id
       IN  /\ ~r.resolved => v.resolver = None
           /\ v.my_vote = PostActionColumn(Viewer, r.post_id, "like_score")
           /\ v.saved = (PostActionColumn(Viewer, r.post_id, "saved") # None)
           /\ v.read = (PostActionColumn(Viewer, r.post_id, "read") # None)
           /\ v.hidden = (PostActionColumn(Viewer, r.post_id, "hidden") # None)
           /\ v.creator_blocked =
                (\E a \in person_actions :
                   a.person_id = Viewer /\ a.target_id = author /\ a.blocked # None)
           /\ v.creator_banned_from_community =
                (CommunityActionColumn(author, v.post.community_id, "received_ban")
                   # None)
           /\ v.creator_is_moderator =
                (CommunityActionColumn(author, v.post.community_id, "became_moderator")
                   # None)
           /\ v.creator_is_admin =
                (\E a \in local_user : a.person_id = author /\ a.admin)
  /\ (ret.op = "read" /\ ret.args.report_id \in ReportIds) => ret.res.tag = "Ok"
  /\ (ret.op = "list" /\ ret.args.user.local_user.admin) =>
       /\ ret.res.tag = "Ok"
       /\ Len(ret.res.val) = Min(FETCH_LIMIT_DEFAULT, Len(post_report))

\* A viewer without any edge read a report of a post that another viewer
\* voted on and saved: every flag of the view is false, the vote is null.
C7_Witness ==
  /\ ret.op = "read"
  /\ ret.res.tag = "Ok"
  /\ \E a \in post_actions :
       /\ a.post_id = ret.res.val.post.id
       /\ a.like_score # None
       /\ a.saved # None
  /\ ret.res.val.resolver = None
  /\ ret.res.val.my_vote = None
  /\ ~ret.res.val.saved
  /\ ~ret.res.val.read
  /\ ~ret.res.val.hidden
  /\ ~ret.res.val.creator_blocked
  /\ ~ret.res.val.creator_banned_from_community
  /\ ~ret.res.val.creator_is_moderator
  /\ ~ret.res.val.creator_is_admin

\* C9: the unread-comment count of a view is the post's comment count when
\* the viewer has no post_actions row or no read-comments amount, and the
\* count minus that amount otherwise; it is always a number.
C9_UnreadCommentsFallBackToTotal ==
  \A v \in ViewsReturned :
    LET total == v.counts.comments
        consumed == PostActionColumn(Viewer, v.post.id, "read_comments_amount")
    IN  /\ total = comments_of(v.post.id)
        /\ v.unread_comments \in Int
        /\ v.unread_comments = IF consumed = None THEN total ELSE total - consumed[1]

\* A view of a post with two comments, one of them read by the viewer.
C9_Witness ==
  /\ ret.op = "read"
  /\ ret.res.tag = "Ok"
  /\ ret.res.val.counts.comments = 2
  /\ PostActionColumn(Viewer, ret.res.val.post.id, "read_comments_amount") = Some(1)
  /\ ret.res.val.unread_comments = 1

====
